---- MODULE Spec2Model ----
(***************************************************************************)
(* Repository Intelligence System: the public analyzer                     *)
(* (src/src/core/analyzer.py) and its callers: the command line            *)
(* (src/cli/analyze.py), the REST layer (src/src/api/main.py) and the      *)
(* usage examples (src/examples/basic_usage.py).                           *)
(*                                                                         *)
(* Numbers.  Every score, metric and threshold is a Python float with at   *)
(* most three decimals in the source; it is modelled by the integer number *)
(* of thousandths (0.75 is 750).  A Python value that may be None is       *)
(* modelled as a sequence: PyNone is << >>, the float f is << f >>.        *)
(*                                                                         *)
(* The engine package repo_intelligence_demo is imported by the analyzer   *)
(* but is not part of the sources.  It is modelled from the specification  *)
(* (sections 4.6, 4.7, 5 and 8) as one of a family of engines, fixed for a *)
(* run: the specified one, and ones that hand back ill-formed answers.     *)
(***************************************************************************)
EXTENDS Integers, Sequences, FiniteSets, TLC

(***************************************************************************)
(* Bounds of the model.                                                    *)
(***************************************************************************)
MaxCalls == 3

\* The longest URL given to the collector, in tokens after the scheme.
MaxUrlLen == 6

(***************************************************************************)
(* Inputs.                                                                 *)
(***************************************************************************)
Urls == {"https://github.com/microsoft/vscode", "https://github.com/facebook/react"}

Thresholds == {0, 900, 1500}

PyNone == << >>

Float(f) == << f >>

\* A call argument: left out by the caller, or given with a value.
Omitted == [given |-> FALSE, value |-> PyNone]

Given(v) == [given |-> TRUE, value |-> v]

Instances == {1, 2}

(***************************************************************************)
(* State.                                                                  *)
(***************************************************************************)
VARIABLES
    engine_importable,  \* whether `import repo_intelligence_demo` succeeds
    engine,             \* which engine is installed (one of Engines)
    analyzers,          \* the long-lived RepositoryAnalyzer objects
    first_outcome,      \* what analyze_repository first did, by <<repo_url, threshold>>
    ncalls,             \* analyze_repository calls made so far
    last,               \* the last operation: its calls and what it produced
    collector           \* the GitHubCollector.extract_repo_data call under way

vars == <<engine_importable, engine, analyzers, first_outcome, ncalls, last, collector>>

Returned(v) == [kind |-> "return", value |-> v]

Raised(e) == [kind |-> "raise", exc |-> e]

(***************************************************************************)
(* The engine (repo_intelligence_demo.MathematicalEngine).  "sound" is the *)
(* engine of the specification; the others depart from it in one respect   *)
(* each, since the analyzer must cope with whatever is installed.  Every   *)
(* engine is a function of its arguments alone.                            *)
(***************************************************************************)
Engines == {"sound", "wrong_flag", "out_of_range", "no_meets_threshold",
            "no_M_score", "no_metrics", "no_recommendations", "raises"}

\* The activity of the two repositories, as the metrics it yields.
EngineMetrics(repo_url) ==
    IF repo_url = "https://github.com/microsoft/vscode"
    THEN [H |-> 800, V |-> 700, C |-> 600, A |-> 200]
    ELSE [H |-> 200, V |-> 400, C |-> 300, A |-> 600]

\* 100 * M for M = 0.3 H + 0.3 V + 0.25 C + 0.15 (1 - A)  (section 4.6)
Composite100(m) == 30 * m.H + 30 * m.V + 25 * m.C + 15 * (1000 - m.A)

\* One recommendation per metric outside its target band (section 4.7).
EngineRecommendations(m) ==
    (IF m.H < 600 THEN <<"Spread commits over time and authors">> ELSE << >>)
    \o (IF m.V < 500 THEN <<"Sustain delivery pace">> ELSE << >>)
    \o (IF m.C < 500 THEN <<"Increase PR review coverage">> ELSE << >>)
    \o (IF m.A > 300 THEN <<"Clean up stale branches">> ELSE << >>)

\* f without the key k
Without(f, k) == [x \in DOMAIN f \ {k} |-> f[x]]

\* MathematicalEngine().analyze(repo_url, threshold) of engine e
engine_analyze(e, repo_url, threshold) ==
    LET m == EngineMetrics(repo_url)
        M == Composite100(m) \div 100
        sound == [meets_threshold |-> M >= threshold[1],
                  M_score |-> M,
                  metrics |-> m,
                  recommendations |-> EngineRecommendations(m)]
    IN  IF e = "raises" THEN Raised("EngineError")
        ELSE IF threshold = PyNone THEN Raised("TypeError")
        ELSE IF e = "wrong_flag" THEN Returned([sound EXCEPT !.meets_threshold = TRUE])
        ELSE IF e = "out_of_range"
             THEN Returned([sound EXCEPT !.M_score = M + 1000,
                                         !.metrics = [m EXCEPT !.H = m.H + 1000]])
        ELSE IF e = "no_meets_threshold" THEN Returned(Without(sound, "meets_threshold"))
        ELSE IF e = "no_M_score" THEN Returned(Without(sound, "M_score"))
        ELSE IF e = "no_metrics" THEN Returned(Without(sound, "metrics"))
        ELSE IF e = "no_recommendations" THEN Returned(Without(sound, "recommendations"))
        ELSE Returned(sound)

(***************************************************************************)
(* RepositoryAnalyzer (src/src/core/analyzer.py).                          *)
(***************************************************************************)
\* _check_demo_engine: True iff `import repo_intelligence_demo` succeeds.
check_demo_engine == engine_importable

\* __init__: the object's only attribute is demo_available.
RepositoryAnalyzer == [demo_available |-> check_demo_engine]

\* The default of the threshold parameter of analyze_repository.
DefaultThreshold == 700

\* BindThreshold with a default that is shared mutable state: a call that
\* leaves the threshold out gets the threshold of the call before it.
BindThreshold_sticky(arg) ==
    IF arg.given THEN arg.value
    ELSE IF last.calls # << >>
         THEN IF last.calls[Len(last.calls)].arg.given
              THEN last.calls[Len(last.calls)].arg.value
              ELSE Float(700)
         ELSE Float(700)

\* Binding of the threshold parameter of analyze_repository.
BindThreshold(arg) == IF arg.given THEN arg.value ELSE Float(DefaultThreshold)

\* FallbackResult with the placeholder classified like a computed result.
FallbackResult_healthy(repo_url, threshold) ==
    [repository |-> repo_url,
     classification |-> "HEALTHY",
     M_score |-> 750,
     threshold |-> threshold,
     metrics |-> [H |-> 800, V |-> 700, C |-> 600, A |-> 200],
     recommendations |-> <<"Install repo-intelligence-core for full analysis">>,
     demo |-> FALSE,
     demo_mode |-> TRUE]

\* The dict returned when the engine is not available (lines 30-45).
FallbackResult(repo_url, threshold) ==
    [repository |-> repo_url,
     classification |-> "DEMO_HEALTHY",
     M_score |-> 750,
     threshold |-> threshold,
     metrics |-> [H |-> 800, V |-> 700, C |-> 600, A |-> 200],
     recommendations |-> <<"Install repo-intelligence-core for full analysis">>,
     demo |-> FALSE,
     demo_mode |-> TRUE]

\* dict.get(key, default)
DictGet(d, key, default) == IF key \in DOMAIN d THEN d[key] ELSE default

\* The dict built from the engine's answer (lines 54-62).  The entries are
\* evaluated in source order, so the first missing key raises KeyError.
EngineResult(repo_url, threshold, result) ==
    IF "meets_threshold" \notin DOMAIN result THEN Raised("KeyError: meets_threshold")
    ELSE IF "M_score" \notin DOMAIN result THEN Raised("KeyError: M_score")
    ELSE IF "metrics" \notin DOMAIN result THEN Raised("KeyError: metrics")
    ELSE Returned(
        [repository |-> repo_url,
         classification |-> IF result["meets_threshold"] THEN "HEALTHY" ELSE "NEEDS_ATTENTION",
         M_score |-> result["M_score"],
         threshold |-> threshold,
         metrics |-> result["metrics"],
         recommendations |-> DictGet(result, "recommendations", << >>),
         demo |-> TRUE])

\* analyze_repository(self, repo_url, threshold=0.7).  Neither path checks
\* the threshold; the engine is imported and called on the engine path only.
analyze_repository(self, repo_url, arg) ==
    LET threshold == BindThreshold(arg)
        result == engine_analyze(engine, repo_url, threshold)
    IN  IF ~ self.demo_available
        THEN Returned(FallbackResult(repo_url, threshold))
        ELSE IF result.kind = "raise" THEN result
        ELSE EngineResult(repo_url, threshold, result.value)

\* after_analyze_repository for an analyzer that switches itself to demo mode
\* once the engine has failed.
after_analyze_repository_degrades(self, repo_url, arg) ==
    IF self.demo_available /\ analyze_repository(self, repo_url, arg).kind = "raise"
    THEN [self EXCEPT !.demo_available = FALSE]
    ELSE self

\* The analyzer object after analyze_repository: the method assigns to no
\* attribute of self.
after_analyze_repository(self, repo_url, arg) == self

\* Whether a call of analyze_repository on self reaches engine.analyze.
InvokesEngine(self) == self.demo_available

\* get_engine_info(self)
get_engine_info(self) ==
    IF self.demo_available
    THEN [engine |-> "Proprietary pi1 Mathematical Engine",
          capabilities |-> <<"Full repository analysis", "pi1 formula", "Custom thresholds">>,
          version |-> "1.0.0"]
    ELSE [engine |-> "Demo Mode",
          capabilities |-> <<"Basic structure analysis", "Demo metrics">>,
          message |-> "Install repo-intelligence-core for full capabilities"]

\* The analyzer object after get_engine_info: the method only reads self.
after_get_engine_info(self) == self

(***************************************************************************)
(* Command line (src/cli/analyze.py).                                      *)
(***************************************************************************)
\* The default of the --threshold option.
CliDefaultThreshold == 700

\* click binds --threshold (type=float, default=0.7).
CliThreshold(opt) == IF opt.given THEN opt.value ELSE Float(CliDefaultThreshold)

\* _print_summary(result, output): the lines written, as the values shown.
print_summary(result) ==
    [repository |-> DictGet(result, "repository", "N/A"),
     classification |-> DictGet(result, "classification", "N/A"),
     M_score |-> result["M_score"],
     threshold |-> DictGet(result, "threshold", PyNone),
     metrics |-> result["metrics"],
     recommendations |-> DictGet(result, "recommendations", << >>),
     demo_banner |-> DictGet(result, "demo_mode", FALSE)]

\* The status line written to stderr after the output (lines 81-86).
CliStatus(result) ==
    IF DictGet(result, "classification", "N/A") = "HEALTHY"
    THEN "HEALTHY" ELSE "NEEDS ATTENTION"

\* One analyze_repository call made by a handler: the arguments passed,
\* whether the engine was invoked, and what the call did.
CallRecord(self, repo_url, arg) ==
    [repo_url |-> repo_url,
     arg |-> arg,
     engine_invoked |-> InvokesEngine(self),
     outcome |-> analyze_repository(self, repo_url, arg)]

\* The analyze command.  It reads analyzer.proprietary_available, an attribute
\* RepositoryAnalyzer never sets: the read raises AttributeError, which the
\* handler's except clause turns into an error line and exit status 1.
cli_analyze(repo_url, opt, output_format) ==
    LET analyzer == RepositoryAnalyzer
        engine_info == get_engine_info(analyzer)
        call == CallRecord(analyzer, repo_url, Given(CliThreshold(opt)))
        warning(a) == IF ~ a.proprietary_available
                      THEN <<"Running in demo mode">> ELSE << >>
    IN  IF "proprietary_available" \notin DOMAIN analyzer
        THEN [calls |-> << >>,
              output |-> [exit_code |-> 1, written |-> "nothing", stdout |-> << >>,
                          stderr |-> <<"Analyzing repository", "Error: AttributeError">>]]
        ELSE IF call.outcome.kind = "raise"
        THEN [calls |-> <<call>>,
              output |-> [exit_code |-> 1, written |-> "nothing", stdout |-> << >>,
                          stderr |-> <<"Analyzing repository">> \o warning(analyzer)
                                     \o <<"Error: " \o call.outcome.exc>>]]
        ELSE [calls |-> <<call>>,
              output |-> [exit_code |-> 0, written |-> output_format,
                          stdout |-> IF output_format = "json"
                                     THEN <<call.outcome.value>>
                                     ELSE <<print_summary(call.outcome.value)>>,
                          stderr |-> <<"Analyzing repository">> \o warning(analyzer)
                                     \o <<CliStatus(call.outcome.value)>>]]

(***************************************************************************)
(* REST layer (src/src/api/main.py).                                       *)
(***************************************************************************)
\* The default of AnalysisRequest.threshold.
ApiDefaultThreshold == 700

\* RequestThreshold written as `threshold or 0.7`: a falsy value (None, 0.0)
\* is replaced by the default.
RequestThreshold_falsy(field) ==
    IF field.given /\ field.value # PyNone /\ field.value # Float(0)
    THEN field.value ELSE Float(700)

\* AnalysisRequest.threshold: Optional[float] = 0.7.  A body without the
\* field gets the default; an explicit null is kept as None.
RequestThreshold(field) == IF field.given THEN field.value ELSE Float(ApiDefaultThreshold)

\* AnalysisResponse(**result): unknown keys are ignored, missing optional
\* fields take their defaults, and a threshold of None fails validation.
AnalysisResponse(result) ==
    IF result["threshold"] = PyNone
    THEN Raised("ValidationError: threshold")
    ELSE Returned(
        [repository |-> result["repository"],
         classification |-> result["classification"],
         M_score |-> result["M_score"],
         threshold |-> result["threshold"],
         metrics |-> result["metrics"],
         recommendations |-> DictGet(result, "recommendations", << >>),
         proprietary |-> DictGet(result, "proprietary", TRUE),
         demo_mode |-> DictGet(result, "demo_mode", FALSE)])

\* POST /analyze
api_analyze(repo_url, field) ==
    LET analyzer == RepositoryAnalyzer
        call == CallRecord(analyzer, repo_url, Given(RequestThreshold(field)))
        response == AnalysisResponse(call.outcome.value)
    IN  [calls |-> <<call>>,
         output |-> IF call.outcome.kind = "raise"
                    THEN [status |-> 400, detail |-> "Analysis failed: " \o call.outcome.exc]
                    ELSE IF response.kind = "raise"
                    THEN [status |-> 400, detail |-> "Analysis failed: " \o response.exc]
                    ELSE [status |-> 200, body |-> response.value]]

\* GET /health.  Like the command line it reads analyzer.proprietary_available,
\* which no RepositoryAnalyzer has: the AttributeError leaves the handler and
\* the application answers 500 (the handler registered for 500).
health_check ==
    LET analyzer == RepositoryAnalyzer
    IN  IF "proprietary_available" \notin DOMAIN analyzer
        THEN [status |-> 500,
              body |-> [error |-> "Internal server error",
                        detail |-> "Please try again later"]]
        ELSE [status |-> 200,
              body |-> [status |-> "healthy",
                        proprietary_engine_available |-> analyzer.proprietary_available,
                        version |-> "1.0.0"]]

\* GET /demo/analyze
demo_analysis ==
    [repository |-> "https://github.com/example/demo",
     classification |-> "HEALTHY",
     M_score |-> 782,
     threshold |-> Float(700),
     metrics |-> [H |-> 850, V |-> 720, C |-> 680, A |-> 150],
     recommendations |-> <<"Consider increasing PR review coverage",
                           "Monitor for long-lived feature branches">>,
     proprietary |-> TRUE,
     demo_mode |-> TRUE]

(***************************************************************************)
(* Examples (src/examples/basic_usage.py).                                 *)
(***************************************************************************)
\* The repositories of example_batch_analysis (the first two of its four).
BatchRepos == <<"https://github.com/microsoft/vscode", "https://github.com/facebook/react">>

\* The entry appended to results for one repository (lines 62-74).
BatchEntry(call) ==
    IF call.outcome.kind = "raise"
    THEN [url |-> call.repo_url, score |-> PyNone, classification |-> "ERROR"]
    ELSE [url |-> call.repo_url,
          score |-> Float(call.outcome.value["M_score"]),
          classification |-> call.outcome.value["classification"]]

\* One line of the batch summary (lines 79-82): a falsy score prints N/A.
BatchLine(entry) ==
    [status |-> IF entry.classification = "HEALTHY" THEN "OK" ELSE "WARN",
     score |-> IF entry.score = PyNone \/ entry.score = Float(0) THEN "N/A" ELSE "score",
     url |-> entry.url]

\* example_batch_analysis: one analyzer, one default-threshold call per repo.
example_batch_analysis ==
    LET analyzer == RepositoryAnalyzer
        calls == [n \in 1..Len(BatchRepos) |-> CallRecord(analyzer, BatchRepos[n], Omitted)]
    IN  [calls |-> calls,
         output |-> [n \in 1..Len(BatchRepos) |-> BatchLine(BatchEntry(calls[n]))]]

(***************************************************************************)
(* GitHubCollector (src/src/collectors/github_collector.py).               *)
(*                                                                         *)
(* A URL is a sequence of tokens: pieces of text ("github.com", "a") and   *)
(* the separator "/", after an optional scheme "https://".  So             *)
(* <<"a", "github.com", "/", "a", "/", "a">> with the scheme is            *)
(* https://agithub.com/a/a.                                                *)
(***************************************************************************)
UrlTokens == {"github.com", "a", "/"}

\* The token sequences of length at most n.
RECURSIVE TokenSeqs(_)
TokenSeqs(n) ==
    IF n = 0 THEN {<< >>}
    ELSE LET shorter == TokenSeqs(n - 1)
         IN  shorter \cup {Append(t, c) : t \in {x \in shorter : Len(x) = n - 1},
                                          c \in UrlTokens}

CollectorUrls == [scheme : BOOLEAN, text : TokenSeqs(MaxUrlLen)]

\* The tokens of t before its first "/", and those from it on.
RECURSIVE UpToSlash(_)
UpToSlash(t) ==
    IF t = << >> \/ Head(t) = "/" THEN << >> ELSE <<Head(t)>> \o UpToSlash(Tail(t))

FromSlash(t) == SubSeq(t, Len(UpToSlash(t)) + 1, Len(t))

\* urlparse(url): the network location follows "//" and ends at the next "/";
\* without "//" there is none and all the text is path.
urlparse(url) ==
    LET t == url.text
        after == IF url.scheme THEN t ELSE SubSeq(t, 3, Len(t))
    IN  IF url.scheme \/ (Len(t) >= 2 /\ t[1] = "/" /\ t[2] = "/")
        THEN [netloc |-> UpToSlash(after), path |-> FromSlash(after)]
        ELSE [netloc |-> << >>, path |-> t]

\* x in netloc, for the text x = "github.com": a substring test.
Contains(t, x) == \E k \in 1..Len(t) : t[k] = x

\* str.strip("/")
RECURSIVE LStrip(_)
LStrip(t) == IF t # << >> /\ Head(t) = "/" THEN LStrip(Tail(t)) ELSE t

RECURSIVE RStrip(_)
RStrip(t) ==
    IF t # << >> /\ t[Len(t)] = "/" THEN RStrip(SubSeq(t, 1, Len(t) - 1)) ELSE t

Strip(t) == RStrip(LStrip(t))

\* str.split("/"): the pieces between separators, empty ones included.
RECURSIVE Split(_)
Split(t) ==
    IF FromSlash(t) = << >> THEN <<UpToSlash(t)>>
    ELSE <<UpToSlash(t)>> \o Split(Tail(FromSlash(t)))

\* _parse_repo_url(url): None, or the text owner/repo.
parse_repo_url(url) ==
    LET parsed == urlparse(url)
        path_parts == Split(Strip(parsed.path))
    IN  IF ~ Contains(parsed.netloc, "github.com") THEN PyNone
        ELSE IF Len(path_parts) >= 2
             THEN <<path_parts[1] \o <<"/">> \o path_parts[2]>>
             ELSE PyNone

\* extract_repo_data(repo_url): ValueError if the parse gave nothing, else
\* one github.get_repo(repo_path), which works (github_ok) or fails.
extract_repo_data(url, github_ok) ==
    LET repo_path == parse_repo_url(url)
    IN  IF repo_path = PyNone \/ repo_path[1] = << >>
        THEN [phase |-> "done", url |-> url, api_calls |-> << >>,
              outcome |-> Raised("ValueError: Invalid GitHub URL")]
        ELSE [phase |-> "done", url |-> url, api_calls |-> <<repo_path[1]>>,
              outcome |-> IF github_ok THEN Returned("repository data")
                          ELSE Raised("Exception: Failed to collect data")]

\* No collection under way.
NoCollection ==
    [phase |-> "idle", url |-> [scheme |-> FALSE, text |-> << >>], api_calls |-> << >>,
     outcome |-> Raised("none")]

(***************************************************************************)
(* Operations.                                                             *)
(***************************************************************************)
\* Two calls are the same call when they pass the same arguments.
Key(call) == <<call.repo_url, call.arg>>

\* f extended with k |-> v unless k is already mapped.
Extend(f, k, v) == IF k \in DOMAIN f THEN f ELSE (k :> v) @@ f

\* first_outcome after calls.
RECURSIVE NoteOutcomes(_, _)
NoteOutcomes(f, calls) ==
    IF calls = << >> THEN f
    ELSE NoteOutcomes(Extend(f, Key(Head(calls)), Head(calls).outcome), Tail(calls))

\* The input of an operation that takes none, and the key of no call.
NoInput == [repo_url |-> "", threshold |-> Omitted]

NoKey == <<"", Omitted>>

\* The key of the most recent call made up to and including the last operation.
LatestKey ==
    IF last.calls = << >> THEN last.before ELSE Key(last.calls[Len(last.calls)])

\* The bookkeeping shared by all operations: last records the operation, the
\* calls it made, which of them repeat an earlier call (repeats) and the call
\* made just before it (before).  The installed package
\* (engine_importable, engine) is written by no operation.
Finish(op, input, done) ==
    /\ ncalls + Len(done.calls) <= MaxCalls
    /\ first_outcome' = NoteOutcomes(first_outcome, done.calls)
    /\ ncalls' = ncalls + Len(done.calls)
    /\ last' = [op |-> op, input |-> input, calls |-> done.calls, output |-> done.output,
                repeats |-> {n \in 1..Len(done.calls) :
                                Key(done.calls[n]) \in DOMAIN first_outcome},
                before |-> LatestKey]
    /\ UNCHANGED <<engine_importable, engine, collector>>

Init ==
    /\ engine_importable \in BOOLEAN
    /\ engine \in IF engine_importable THEN Engines ELSE {"absent"}
    /\ analyzers = [i \in Instances |-> RepositoryAnalyzer]
    /\ first_outcome = << >>
    /\ ncalls = 0
    /\ last = [op |-> "init", input |-> NoInput, calls |-> << >>, output |-> << >>,
               repeats |-> {}, before |-> NoKey]
    /\ collector = NoCollection

\* The threshold arguments a caller may pass.
ThresholdArgs == {Omitted} \cup {Given(Float(t)) : t \in Thresholds}

\* A direct call analyzer.analyze_repository(repo_url[, threshold]) on a
\* long-lived analyzer (example_single_analysis, example_custom_threshold).
Call(i, repo_url, arg) ==
    /\ ncalls < MaxCalls
    /\ LET call == CallRecord(analyzers[i], repo_url, arg)
       IN  Finish("call", [repo_url |-> repo_url, threshold |-> arg],
                  [calls |-> <<call>>, output |-> call.outcome])
    /\ analyzers' = [analyzers EXCEPT
                        ![i] = after_analyze_repository(analyzers[i], repo_url, arg)]

\* analyzer.get_engine_info() on a long-lived analyzer.
EngineInfo(i) ==
    /\ Finish("get_engine_info", NoInput,
              [calls |-> << >>, output |-> get_engine_info(analyzers[i])])
    /\ analyzers' = [analyzers EXCEPT ![i] = after_get_engine_info(analyzers[i])]

\* python cli/analyze.py REPO_URL [-t THRESHOLD] [--format FORMAT]
\* The handlers below build an analyzer of their own and drop it on return.
CliAnalyze(repo_url, opt, output_format) ==
    /\ Finish("cli_analyze", [repo_url |-> repo_url, threshold |-> opt],
              cli_analyze(repo_url, opt, output_format))
    /\ UNCHANGED analyzers

\* POST /analyze with body {repo_url[, threshold]}
ApiAnalyze(repo_url, field) ==
    /\ ncalls < MaxCalls
    /\ Finish("api_analyze", [repo_url |-> repo_url, threshold |-> field],
              api_analyze(repo_url, field))
    /\ UNCHANGED analyzers

\* GET /demo/analyze
ApiDemoAnalysis ==
    /\ Finish("demo_analysis", NoInput, [calls |-> << >>, output |-> demo_analysis])
    /\ UNCHANGED analyzers

\* GET /health
ApiHealth ==
    /\ Finish("health_check", NoInput, [calls |-> << >>, output |-> health_check])
    /\ UNCHANGED analyzers

\* example_batch_analysis()
ExampleBatch ==
    /\ ncalls + Len(BatchRepos) <= MaxCalls
    /\ Finish("example_batch_analysis", NoInput, example_batch_analysis)
    /\ UNCHANGED analyzers

Next ==
    \/ \E i \in Instances, repo_url \in Urls, arg \in ThresholdArgs : Call(i, repo_url, arg)
    \/ \E i \in Instances : EngineInfo(i)
    \/ \E repo_url \in Urls, opt \in {Omitted, Given(Float(900))}, f \in {"json", "summary"} :
          CliAnalyze(repo_url, opt, f)
    \/ \E repo_url \in Urls, field \in ThresholdArgs \cup {Given(PyNone)} :
          ApiAnalyze(repo_url, field)
    \/ ApiDemoAnalysis
    \/ ApiHealth
    \/ ExampleBatch

Spec == Init /\ [][Next]_vars

\* The repository as shipped: the engine package is not installed.
InitDemo == Init /\ ~ engine_importable

SpecDemo == InitDemo /\ [][Next]_vars

\* The collector alone: extract_repo_data is called with one URL.
InitCollector ==
    /\ engine_importable = FALSE
    /\ engine = "absent"
    /\ analyzers = [i \in Instances |-> RepositoryAnalyzer]
    /\ first_outcome = << >>
    /\ ncalls = 0
    /\ last = [op |-> "init", input |-> NoInput, calls |-> << >>, output |-> << >>,
               repeats |-> {}, before |-> NoKey]
    /\ collector \in {[phase |-> "called", url |-> u, api_calls |-> << >>,
                        outcome |-> Raised("none")] : u \in CollectorUrls}

\* collector.extract_repo_data(repo_url) runs to its end.
ExtractRepoData(github_ok) ==
    /\ collector.phase = "called"
    /\ collector' = extract_repo_data(collector.url, github_ok)
    /\ UNCHANGED <<engine_importable, engine, analyzers, first_outcome, ncalls, last>>

NextCollector == \E github_ok \in BOOLEAN : ExtractRepoData(github_ok)

SpecCollector == InitCollector /\ [][NextCollector]_vars

(***************************************************************************)
(* Properties.  They speak of the last operation: the analyze_repository   *)
(* calls it made and what it handed to its caller.                         *)
(***************************************************************************)
\* The calls of the last operation that returned a result.
ReturnedCalls == {n \in 1..Len(last.calls) : last.calls[n].outcome.kind = "return"}

\* The results analyze_repository returned in the last operation.
Results == {last.calls[n].outcome.value : n \in ReturnedCalls}

\* The threshold a caller's argument stands for: its value, 0.7 if left out.
Supplied(arg) == IF arg.given THEN arg.value ELSE Float(700)

\* A threshold in the valid range (0, 1].
ValidThreshold(t) == t # PyNone /\ t[1] > 0 /\ t[1] <= 1000

\* C1: every returned result is classified HEALTHY if its M_score is at least
\* the threshold and NEEDS_ATTENTION otherwise, on the fallback path and on the
\* engine path; it has no other classification.
C1_ClassificationByThreshold ==
    \A r \in Results :
        r.threshold # PyNone =>
            r.classification = IF r.M_score >= r.threshold[1]
                               THEN "HEALTHY" ELSE "NEEDS_ATTENTION"

\* C2: every returned result has all keys of the output contract, and its
\* demo_mode flag is a boolean that is never missing.
C2_OutputContractKeys ==
    \A r \in Results :
        /\ {"repository", "classification", "M_score", "threshold", "metrics",
            "recommendations", "demo_mode"} \subseteq DOMAIN r
        /\ r["demo_mode"] \in BOOLEAN

\* Whether a result is a demo-mode (degraded) result.
IsDemo(r) == DictGet(r, "demo_mode", FALSE) = TRUE

\* element membership in a sequence
Has(seq, x) == \E k \in 1..Len(seq) : seq[k] = x

\* What the last operation showed its caller of demo-mode results: per place
\* of output, whether it shows the classification HEALTHY and whether it
\* carries the demo-mode flag or banner.
DemoViews ==
    (IF last.op = "demo_analysis" /\ IsDemo(last.output)
     THEN {[channel |-> "demo_analysis",
            shows_healthy |-> last.output.classification = "HEALTHY",
            flagged |-> IsDemo(last.output)]}
     ELSE {})
    \cup
    (IF last.op = "api_analyze" /\ last.output.status = 200 /\ Results # {}
     THEN {[channel |-> "api_analyze",
            shows_healthy |-> last.output.body.classification = "HEALTHY",
            flagged |-> IsDemo(last.output.body)] : r \in {x \in Results : IsDemo(x)}}
     ELSE {})
    \cup
    (IF last.op = "example_batch_analysis"
     THEN {[channel |-> "batch",
            shows_healthy |-> last.output[n].status = "OK",
            flagged |-> FALSE] :
           n \in {m \in ReturnedCalls : IsDemo(last.calls[m].outcome.value)}}
     ELSE {})
    \cup
    (IF last.op = "cli_analyze" /\ last.output.exit_code = 0
     THEN {[channel |-> "cli " \o last.output.written,
            shows_healthy |-> last.output.stdout[1].classification = "HEALTHY",
            flagged |-> IF last.output.written = "json"
                        THEN IsDemo(last.output.stdout[1])
                        ELSE last.output.stdout[1].demo_banner = TRUE] :
           r \in {x \in Results : IsDemo(x)}}
          \cup
          {[channel |-> "cli stderr",
            shows_healthy |-> Has(last.output.stderr, "HEALTHY"),
            flagged |-> Has(last.output.stderr, "Running in demo mode")] :
           r \in {x \in Results : IsDemo(x)}}
     ELSE {})

\* C3: wherever a demo-mode result reaches a caller (command line, batch
\* example, /analyze, /demo/analyze), the output shows the classification
\* HEALTHY only together with the demo-mode flag or banner.
C3_DemoNeverShownAsHealthy ==
    \A v \in DemoViews : v.shows_healthy => v.flagged

\* A demo-mode result reached the batch summary, which has no flag column, and
\* is not shown as healthy there.
C3_Witness ==
    \E v \in DemoViews : v.channel = "batch" /\ ~ v.shows_healthy

\* C4: a call with a threshold outside (0, 1] returns no result and does not
\* invoke the engine.
C4_InvalidThresholdRejected ==
    \A n \in 1..Len(last.calls) :
        LET t == Supplied(last.calls[n].arg)
        IN  (t # PyNone /\ ~ ValidThreshold(t)) =>
                /\ last.calls[n].outcome.kind = "raise"
                /\ ~ last.calls[n].engine_invoked

\* The threshold argument of the caller of the last operation for call n.
CallerThreshold(n) ==
    IF last.op = "example_batch_analysis" THEN Omitted ELSE last.input.threshold

\* C5: the threshold of every returned result is the one the caller supplied,
\* 0.7 if the caller supplied none: in the result of analyze_repository, in the
\* /analyze response and in the command line's output.
C5_ThresholdEchoed ==
    /\ \A n \in ReturnedCalls :
          last.calls[n].outcome.value.threshold = Supplied(CallerThreshold(n))
    /\ (last.op = "api_analyze" /\ last.output.status = 200) =>
          last.output.body.threshold = Supplied(last.input.threshold)
    /\ (last.op = "cli_analyze" /\ last.output.exit_code = 0) =>
          last.output.stdout[1].threshold = Supplied(last.input.threshold)

\* An /analyze request without a threshold was answered with threshold 0.7.
C5_Witness ==
    /\ last.op = "api_analyze"
    /\ ~ last.input.threshold.given
    /\ last.output.status = 200
    /\ last.output.body.threshold = Float(700)

\* C6: in every returned result H, V, C, A and M_score lie in [0.0, 1.0].
C6_ScoresInUnitRange ==
    \A r \in Results :
        /\ \A k \in {"H", "V", "C", "A"} : r.metrics[k] >= 0 /\ r.metrics[k] <= 1000
        /\ r.M_score >= 0 /\ r.M_score <= 1000

\* C7: in every returned result, and in the demo endpoint's result, M_score is
\* the composite 0.3 H + 0.3 V + 0.25 C + 0.15 (1 - A) of the result's metrics.
C7_ScoreIsComposite ==
    /\ \A r \in Results : 100 * r.M_score = Composite100(r.metrics)
    /\ last.op = "demo_analysis" =>
          100 * last.output.M_score = Composite100(last.output.metrics)

\* All four metrics within their target bands.
InBand(m) == m.H >= 600 /\ m.V >= 500 /\ m.C >= 500 /\ m.A <= 300

\* C8: a returned result whose four metrics are all within their target bands
\* has an empty recommendations list; so has the demo endpoint's result.
C8_InBandNoRecommendations ==
    /\ \A r \in Results : InBand(r.metrics) => r.recommendations = << >>
    /\ (last.op = "demo_analysis" /\ InBand(last.output.metrics)) =>
          last.output.recommendations = << >>

\* C9: analyze_repository called with a valid threshold always returns a
\* result (flagged demo_mode when the engine's data is missing); it never raises.
C9_AnalyzeIsTotal ==
    \A n \in 1..Len(last.calls) :
        ValidThreshold(Supplied(last.calls[n].arg)) =>
            last.calls[n].outcome.kind = "return"

C11_Stateless ==
    /\ \A i \in Instances :
          /\ DOMAIN analyzers[i] = {"demo_available"}
          /\ analyzers[i].demo_available = engine_importable
    /\ \A n \in 1..Len(last.calls) :
          /\ last.calls[n].engine_invoked = engine_importable
          /\ last.calls[n].outcome.kind = "return" =>
                last.calls[n].outcome.value.threshold = Supplied(last.calls[n].arg)

\* A direct call returned a result after an earlier call that passed another
\* threshold argument.
C11_Witness ==
    /\ last.op = "call"
    /\ last.calls[1].outcome.kind = "return"
    /\ last.before # NoKey
    /\ last.before[2] # last.calls[1].arg

\* C12: the command line and /health read the analyzer's availability flag
\* without failing.  Whenever analyze_repository returns a result for the
\* command's arguments, the command writes it in the selected format and exits
\* with status 0 (status 1 only when the analysis raises); /health answers
\* "healthy" with the availability the analyzer found at construction.
C12_AvailabilityFlagRead ==
    /\ last.op = "cli_analyze" =>
          LET analysis == analyze_repository(RepositoryAnalyzer, last.input.repo_url,
                                             Given(CliThreshold(last.input.threshold)))
          IN  /\ analysis.kind = "return" =>
                    /\ last.output.exit_code = 0
                    /\ last.output.written \in {"json", "summary"}
                    /\ Len(last.output.stdout) = 1
              /\ last.output.exit_code = 1 => analysis.kind = "raise"
    /\ last.op = "health_check" =>
          /\ last.output.status = 200
          /\ last.output.body.status = "healthy"
          /\ last.output.body.proprietary_engine_available = engine_importable

\* C13: in every /analyze response the provenance flags agree with the path
\* that produced the result: proprietary is true only if the installed engine
\* computed it, and a fallback result (demo_mode true) never has proprietary
\* true.
C13_ProvenanceFlags ==
    (last.op = "api_analyze" /\ last.output.status = 200) =>
        /\ last.output.body.proprietary => last.calls[1].engine_invoked
        /\ ~ (last.output.body.demo_mode /\ last.output.body.proprietary)

\* The owner and repository segments of a URL path: the first two pieces
\* after the leading "/".
PathSegments(path) ==
    IF path # << >> /\ Head(path) = "/" THEN Split(Tail(path)) ELSE Split(path)

\* A GitHub repository URL: host github.com, non-empty owner and repository.
IsRepoUrl(url) ==
    LET parsed == urlparse(url)
        segs == PathSegments(parsed.path)
    IN  /\ parsed.netloc = <<"github.com">>
        /\ Len(segs) >= 2
        /\ segs[1] # << >>
        /\ segs[2] # << >>

\* C14: extract_repo_data accepts a URL only if its host is github.com and its
\* path has a non-empty owner and a non-empty repository segment.  For every
\* other URL it raises ValueError before any GitHub API call; for an accepted
\* URL the path it asks GitHub for is exactly owner/repo.
C14_OnlyRepoUrlsAccepted ==
    collector.phase = "done" =>
        LET segs == PathSegments(urlparse(collector.url).path)
        IN  IF IsRepoUrl(collector.url)
            THEN collector.api_calls = <<segs[1] \o <<"/">> \o segs[2]>>
            ELSE /\ parse_repo_url(collector.url) = PyNone
                 /\ collector.outcome = Raised("ValueError: Invalid GitHub URL")
                 /\ collector.api_calls = << >>

====
